---- MODULE Spec2Model ----
(***************************************************************************)
(* State-machine model of aml_engine.py: the script filters the ledger to  *)
(* TRANSFER / CASH_OUT rows, keeps the first SAMPLE_SIZE of them, inserts  *)
(* one edge per kept row into a networkx DiGraph, walks the nodes looking  *)
(* for fan-in hubs and picks the first hub for the ego-graph plot.         *)
(*                                                                         *)
(* Amounts are whole currency units (integers).  The mean the script       *)
(* computes as sum(amounts) / len(amounts) is kept as the pair (sum, len)  *)
(* and compared exactly.                                                   *)
(***************************************************************************)
EXTENDS Integers, Sequences, FiniteSets

\* df, SAMPLE_SIZE          line 14, line 8
\* min_in_degree            the literal of line 45
\* max_mean_amount          the literal of line 50
\* df_filtered, df_sample   lines 17, 20
\* G                        the DiGraph of lines 26-31
\* index, node_index        positions of the loops of lines 30 and 40
\* suspicious_accounts      lines 37-51
\* target, ego              target and the nodes of subgraph, lines 64-71
\* pc                       the step the script is at
VARIABLES df, SAMPLE_SIZE, min_in_degree, max_mean_amount,
          df_filtered, df_sample, G, index, node_index,
          suspicious_accounts, target, ego, pc

vars == <<df, SAMPLE_SIZE, min_in_degree, max_mean_amount,
          df_filtered, df_sample, G, index, node_index,
          suspicious_accounts, target, ego, pc>>

(***************************************************************************)
(* Bounds of the model and constants of the program.                       *)
(***************************************************************************)
\* longest ledger drawn from GeneralRows
MaxRows == 4
\* longest prefix taken of a fan-in ledger
MaxFanRows == 10
\* a SAMPLE_SIZE small enough for the cap of line 20 to cut a ledger
SmallSampleSize == 2
\* SAMPLE_SIZE as the script sets it (line 8)
DefaultSampleSize == 50000
\* the literal of line 45
DefaultMinInDegree == 5
\* the literal of line 50
DefaultMaxMeanAmount == 50000

\* a missing nameOrig / nameDest cell, as read_csv delivers it (one NaN object)
NaN == "nan"
\* target before line 64 has run
None == "None"

Range(s) == {s[k] : k \in DOMAIN s}

Row(o, d, a, t) == [nameOrig |-> o, nameDest |-> d, amount |-> a, type |-> t]

(***************************************************************************)
(* The ledgers the model reads.  GeneralInputs: every ledger of at most    *)
(* MaxRows rows over GeneralRows (repeated pairs, a reversed pair, a       *)
(* category outside the filter, a zero amount, a missing sender).          *)
(* FanInputs: prefixes of two fan-in ledgers, each row with one of two     *)
(* amounts, long enough for in-degrees of 4, 5 and two hubs at once.       *)
(***************************************************************************)
GeneralRows ==
    { Row("A", "B", 100, "TRANSFER"),
      Row("A", "B", 200, "CASH_OUT"),
      Row("B", "A", 100, "TRANSFER"),
      Row("C", "B", 100, "PAYMENT"),
      Row("C", "A", 300, "CASH_OUT"),
      Row("A", "B", 0, "TRANSFER"),
      Row(NaN, "B", 100, "CASH_OUT") }

GeneralInputs == UNION { [1..n -> GeneralRows] : n \in 0..MaxRows }

\* two hubs; H2 is first referenced as a sender, H1 as a receiver
FanLedger1 ==
    << <<"H2", "H1", "TRANSFER">>, <<"S1", "H1", "TRANSFER">>,
       <<"S2", "H1", "CASH_OUT">>, <<"S3", "H1", "TRANSFER">>,
       <<"S4", "H1", "TRANSFER">>, <<"S1", "H2", "TRANSFER">>,
       <<"S2", "H2", "TRANSFER">>, <<"S3", "H2", "CASH_OUT">>,
       <<"S4", "H2", "TRANSFER">>, <<"H1", "H2", "TRANSFER">>,
       <<"S1", "H1", "CASH_OUT">> >>

\* five transfers from four senders, a fifth sender first seen in a PAYMENT
FanLedger2 ==
    << <<"S1", "H1", "TRANSFER">>, <<"S1", "H1", "CASH_OUT">>,
       <<"S2", "H1", "TRANSFER">>, <<"S3", "H1", "TRANSFER">>,
       <<"S4", "H1", "TRANSFER">>, <<"S5", "H1", "PAYMENT">>,
       <<"S6", "H1", "DEBIT">>,    <<"S5", "H1", "TRANSFER">>,
       <<"H1", "S1", "TRANSFER">>, <<"S2", "H1", "CASH_OUT">>,
       <<"S3", "S1", "TRANSFER">> >>

FanLedgers == {FanLedger1, FanLedger2}

FanAmounts(o) == IF o = "S1" THEN <<40000, 50000>> ELSE <<50000, 60000>>

FanRow(L, j, c) ==
    LET e == L[((j - 1) % Len(L)) + 1]
    IN  Row(e[1], e[2], FanAmounts(e[1])[c], e[3])

FanInputs ==
    UNION { { [j \in 1..k |-> FanRow(L, j, c[j])] : c \in [1..k -> 1..2] }
            : <<L, k>> \in FanLedgers \X (0..MaxFanRows) }

Inputs == GeneralInputs \cup FanInputs

SampleSizes == {SmallSampleSize, DefaultSampleSize}

(***************************************************************************)
(* STEP 1: filter and sample (lines 17, 20).                               *)
(***************************************************************************)
AllowedTypes == {"TRANSFER", "CASH_OUT"}

\* mutant: the filter list also names PAYMENT
isin_with_payment(row) == row.type \in AllowedTypes \cup {"PAYMENT"}

isin(row) == row.type \in AllowedTypes

head(d, n) == IF Len(d) <= n THEN d ELSE SubSeq(d, 1, n)

(***************************************************************************)
(* networkx.DiGraph: nodes in insertion order, one data record per ordered *)
(* pair (u, v).                                                            *)
(***************************************************************************)
DiGraph == [nodes |-> << >>, edges |-> << >>]

add_node(nodes, n) == IF n \in Range(nodes) THEN nodes ELSE Append(nodes, n)

\* mutant: the receiver is registered before the sender
add_edge_receiver_first(g, u, v, weight, type) ==
    [nodes |-> add_node(add_node(g.nodes, v), u),
     edges |-> [p \in (DOMAIN g.edges) \cup {<<u, v>>} |->
                   IF p = <<u, v>> THEN [weight |-> weight, type |-> type]
                                   ELSE g.edges[p]]]

\* mutant: an existing pair keeps the data of its first row
add_edge_keep_first(g, u, v, weight, type) ==
    [nodes |-> add_node(add_node(g.nodes, u), v),
     edges |-> [p \in (DOMAIN g.edges) \cup {<<u, v>>} |->
                   IF p \in DOMAIN g.edges THEN g.edges[p]
                   ELSE [weight |-> weight, type |-> type]]]

\* add_edge registers u, then v, and updates the pair's data with the keywords
add_edge(g, u, v, weight, type) ==
    [nodes |-> add_node(add_node(g.nodes, u), v),
     edges |-> [p \in (DOMAIN g.edges) \cup {<<u, v>>} |->
                   IF p = <<u, v>> THEN [weight |-> weight, type |-> type]
                                   ELSE g.edges[p]]]

\* G.in_edges(node, data=True): one (u, v, data) per predecessor u
in_edges(g, node) ==
    {<<p[1], p[2], g.edges[p]>> : p \in {q \in DOMAIN g.edges : q[2] = node}}

RECURSIVE sum(_)
sum(es) ==
    IF es = {} THEN 0
    ELSE LET e == CHOOSE x \in es : TRUE
         IN  e[3].weight + sum(es \ {e})

(***************************************************************************)
(* STEP 3: the test applied to one node (lines 45-50).                     *)
(***************************************************************************)
\* mutant: the comparison of line 50 turned round
avg_above(total, count, bound) == total > bound * count

\* avg_amount < bound, with avg_amount = total / count and count > 0
avg_below(total, count, bound) == total < bound * count

\* line 47 divides by len(amounts): raises exactly when the first test lets
\* a node without inbound edges through
raises_ZeroDivisionError(es, min_deg) ==
    Cardinality(es) >= min_deg /\ Cardinality(es) = 0

\* mutant: the degree test strict, as the comment of line 35 words it
is_suspicious_strict_degree(es, min_deg, max_mean) ==
    /\ Cardinality(es) > min_deg
    /\ avg_below(sum(es), Cardinality(es), max_mean)

is_suspicious(es, min_deg, max_mean) ==
    /\ Cardinality(es) >= min_deg
    /\ avg_below(sum(es), Cardinality(es), max_mean)

\* ego_graph(G.to_undirected(), target, radius=1): target and its neighbours
ego_graph(g, n) ==
    {n} \cup {p[1] : p \in {q \in DOMAIN g.edges : q[2] = n}}
        \cup {p[2] : p \in {q \in DOMAIN g.edges : q[1] = n}}

(***************************************************************************)
(* Initial states.  Init: the script as written, thresholds 5 and       *)
(* 50000.  InitConfig: the two literals set to other values.               *)
(***************************************************************************)
InitRest ==
    /\ df_filtered = << >>
    /\ df_sample = << >>
    /\ G = DiGraph
    /\ index = 1
    /\ node_index = 1
    /\ suspicious_accounts = << >>
    /\ target = None
    /\ ego = {}
    /\ pc = "filter"

Init ==
    /\ df \in Inputs
    /\ SAMPLE_SIZE \in SampleSizes
    /\ min_in_degree = DefaultMinInDegree
    /\ max_mean_amount = DefaultMaxMeanAmount
    /\ InitRest

MinInDegreeSettings == {0, 1, DefaultMinInDegree}
MaxMeanAmountSettings == {-1, DefaultMaxMeanAmount}

InitConfig ==
    /\ df \in GeneralInputs
    /\ SAMPLE_SIZE \in SampleSizes
    /\ min_in_degree \in MinInDegreeSettings
    /\ max_mean_amount \in MaxMeanAmountSettings
    /\ InitRest

(***************************************************************************)
(* Actions.                                                                *)
(***************************************************************************)
config == <<df, SAMPLE_SIZE, min_in_degree, max_mean_amount>>

\* line 17
Filter ==
    /\ pc = "filter"
    /\ df_filtered' = SelectSeq(df, isin)
    /\ pc' = "sample"
    /\ UNCHANGED <<config, df_sample, G, index, node_index,
                   suspicious_accounts, target, ego>>

\* mutant: head(SAMPLE_SIZE) taken of df, the filter applied afterwards
SampleBeforeFilter ==
    /\ pc = "sample"
    /\ df_sample' = SelectSeq(head(df, SAMPLE_SIZE), isin)
    /\ G' = DiGraph
    /\ index' = 1
    /\ pc' = "build"
    /\ UNCHANGED <<config, df_filtered, node_index,
                   suspicious_accounts, target, ego>>

\* lines 20-26
Sample ==
    /\ pc = "sample"
    /\ df_sample' = head(df_filtered, SAMPLE_SIZE)
    /\ G' = DiGraph
    /\ index' = 1
    /\ pc' = "build"
    /\ UNCHANGED <<config, df_filtered, node_index,
                   suspicious_accounts, target, ego>>

\* lines 30-31, one iteration
AddEdge ==
    /\ pc = "build"
    /\ index <= Len(df_sample)
    /\ LET row == df_sample[index]
       IN  G' = add_edge(G, row.nameOrig, row.nameDest, row.amount, row.type)
    /\ index' = index + 1
    /\ UNCHANGED <<config, df_filtered, df_sample, node_index,
                   suspicious_accounts, target, ego, pc>>

\* lines 37-40, loop of line 30 exhausted
StartHunt ==
    /\ pc = "build"
    /\ index > Len(df_sample)
    /\ suspicious_accounts' = << >>
    /\ node_index' = 1
    /\ pc' = "detect"
    /\ UNCHANGED <<config, df_filtered, df_sample, G, index, target, ego>>

\* lines 40-51, one iteration
VisitNode ==
    /\ pc = "detect"
    /\ node_index <= Len(G.nodes)
    /\ LET node == G.nodes[node_index]
           es == in_edges(G, node)
       IN  IF raises_ZeroDivisionError(es, min_in_degree)
           THEN /\ pc' = "ZeroDivisionError"
                /\ UNCHANGED <<suspicious_accounts, node_index>>
           ELSE /\ suspicious_accounts' =
                       IF is_suspicious(es, min_in_degree, max_mean_amount)
                       THEN Append(suspicious_accounts, node)
                       ELSE suspicious_accounts
                /\ node_index' = node_index + 1
                /\ pc' = pc
    /\ UNCHANGED <<config, df_filtered, df_sample, G, index, target, ego>>

\* mutant: the undirected copy of line 68 assigned to G itself
to_undirected(g) ==
    LET both == (DOMAIN g.edges) \cup {<<p[2], p[1]>> : p \in DOMAIN g.edges}
    IN  [nodes |-> g.nodes,
         edges |-> [p \in both |-> IF p \in DOMAIN g.edges THEN g.edges[p]
                                   ELSE g.edges[<<p[2], p[1]>>]]]

VisualizeInPlace ==
    /\ pc = "detect"
    /\ node_index > Len(G.nodes)
    /\ IF suspicious_accounts # << >>
       THEN /\ target' = suspicious_accounts[1]
            /\ G' = to_undirected(G)
            /\ ego' = ego_graph(G, suspicious_accounts[1])
       ELSE UNCHANGED <<target, ego, G>>
    /\ pc' = "done"
    /\ UNCHANGED <<config, df_filtered, df_sample, index, node_index,
                   suspicious_accounts>>

\* lines 53-90, loop of line 40 exhausted
Visualize ==
    /\ pc = "detect"
    /\ node_index > Len(G.nodes)
    /\ IF suspicious_accounts # << >>
       THEN /\ target' = suspicious_accounts[1]
            /\ ego' = ego_graph(G, suspicious_accounts[1])
       ELSE UNCHANGED <<target, ego>>
    /\ pc' = "done"
    /\ UNCHANGED <<config, df_filtered, df_sample, G, index, node_index,
                   suspicious_accounts>>

Next ==
    \/ Filter
    \/ Sample
    \/ AddEdge
    \/ StartHunt
    \/ VisitNode
    \/ Visualize

Spec == Init /\ [][Next]_vars

SpecConfig == InitConfig /\ [][Next]_vars

(***************************************************************************)
(* Vocabulary of the properties, computed from the ledger and the graph    *)
(* without the operators the actions use.                                  *)
(***************************************************************************)
GraphBuilt == pc \in {"detect", "done", "ZeroDivisionError"}

Flagged == Range(suspicious_accounts)

InboundPairs(g, n) == {p \in DOMAIN g.edges : p[2] = n}

InDegreeOf(g, n) == Cardinality(InboundPairs(g, n))

RECURSIVE WeightTotal(_, _)
WeightTotal(g, ps) ==
    IF ps = {} THEN 0
    ELSE LET p == CHOOSE x \in ps : TRUE
         IN  g.edges[p].weight + WeightTotal(g, ps \ {p})

InboundTotal(g, n) == WeightTotal(g, InboundPairs(g, n))

\* the hub rule of the specification, the mean taken as a floored quotient
\* (for an integer bound, floor(x) < bound exactly when x < bound)
HubRule(g, n, min_deg, max_mean) ==
    /\ InDegreeOf(g, n) >= min_deg
    /\ InDegreeOf(g, n) > 0
    /\ InboundTotal(g, n) \div InDegreeOf(g, n) < max_mean

\* rows of the sample inserted so far
Inserted == SubSeq(df_sample, 1, index - 1)

RowsOfPair(rows, u, v) ==
    {k \in DOMAIN rows : rows[k].nameOrig = u /\ rows[k].nameDest = v}

PairsOf(rows) == {<<rows[k].nameOrig, rows[k].nameDest>> : k \in DOMAIN rows}

AccountsOf(rows) ==
    {rows[k].nameOrig : k \in DOMAIN rows} \cup {rows[k].nameDest : k \in DOMAIN rows}

LastOf(ks) == CHOOSE k \in ks : \A j \in ks : j <= k

WellFormed(row) ==
    row.nameOrig # NaN /\ row.nameDest # NaN /\ row.amount > 0

RECURSIVE FirstReferenceOrder(_, _)
FirstReferenceOrder(rows, seen) ==
    IF rows = << >> THEN seen
    ELSE LET r == Head(rows)
             s1 == IF r.nameOrig \in Range(seen) THEN seen
                   ELSE Append(seen, r.nameOrig)
             s2 == IF r.nameDest \in Range(s1) THEN s1
                   ELSE Append(s1, r.nameDest)
         IN  FirstReferenceOrder(Tail(rows), s2)

IsFlagged(n) == n \in Flagged

RECURSIVE FirstAllowed(_, _)
FirstAllowed(rows, n) ==
    IF rows = << >> \/ n <= 0 THEN << >>
    ELSE IF Head(rows).type \in {"TRANSFER", "CASH_OUT"}
         THEN <<Head(rows)>> \o FirstAllowed(Tail(rows), n - 1)
         ELSE FirstAllowed(Tail(rows), n)

C2_NothingCollapsed ==
    GraphBuilt =>
        /\ \A u \in AccountsOf(df_sample), v \in AccountsOf(df_sample) :
               (IF <<u, v>> \in DOMAIN G.edges THEN 1 ELSE 0)
                   = Cardinality(RowsOfPair(df_sample, u, v))
        /\ \A n \in Range(G.nodes) :
               InDegreeOf(G, n)
                   = Cardinality({k \in DOMAIN df_sample : df_sample[k].nameDest = n})
        /\ \A k \in DOMAIN df_sample :
               G.edges[<<df_sample[k].nameOrig, df_sample[k].nameDest>>].weight
                   = df_sample[k].amount

(***************************************************************************)
(* C3                                                                      *)
(***************************************************************************)
\* C3: after the build no edge has a non-positive amount or a missing
\* endpoint, and every well-formed retained row is present as an edge.
C3_MalformedSkipped ==
    GraphBuilt =>
        /\ \A p \in DOMAIN G.edges :
               G.edges[p].weight > 0 /\ p[1] # NaN /\ p[2] # NaN
        /\ \A k \in DOMAIN df_sample :
               WellFormed(df_sample[k]) =>
                   <<df_sample[k].nameOrig, df_sample[k].nameDest>> \in DOMAIN G.edges

(***************************************************************************)
(* C4                                                                      *)
(***************************************************************************)
\* C4: every edge carries an allowed category, every node is an endpoint of
\* an edge, and an account that the ledger names only in rows of other
\* categories is not a node.
C4_OnlyAllowedCategories ==
    /\ \A p \in DOMAIN G.edges : G.edges[p].type \in {"TRANSFER", "CASH_OUT"}
    /\ \A n \in Range(G.nodes) : \E p \in DOMAIN G.edges : n \in {p[1], p[2]}
    /\ \A a \in AccountsOf(df) :
           (\A k \in DOMAIN df :
                a \in {df[k].nameOrig, df[k].nameDest}
                    => df[k].type \notin {"TRANSFER", "CASH_OUT"})
               => a \notin Range(G.nodes)

\* a built, non-empty graph whose ledger names an account only in a row of
\* another category, read before the last retained row
C4_Witness ==
    /\ GraphBuilt
    /\ DOMAIN G.edges # {}
    /\ \E k \in DOMAIN df :
           /\ df[k].type \notin {"TRANSFER", "CASH_OUT"}
           /\ df[k].nameOrig \notin Range(G.nodes)
           /\ \E j \in DOMAIN df : j > k /\ df[j].type \in {"TRANSFER", "CASH_OUT"}

(***************************************************************************)
(* C5                                                                      *)
(***************************************************************************)
\* C5: no step of the hunt or of the plot changes the graph, and the result
\* of a finished hunt is the node sequence filtered by the hub rule, a
\* function of the graph and the two thresholds alone.
PureDetect(g, min_deg, max_mean) ==
    LET Hub(n) == HubRule(g, n, min_deg, max_mean)
    IN  SelectSeq(g.nodes, Hub)

C5_DetectionIsPure ==
    [][ /\ pc = "detect" => G' = G
        /\ pc' = "done" =>
               suspicious_accounts' = PureDetect(G, min_in_degree, max_mean_amount)
      ]_vars

\* the plot has been drawn for a hub and the graph still has its edges
C5_Witness ==
    /\ pc = "done"
    /\ target # None
    /\ ego # {}
    /\ Cardinality(DOMAIN G.edges) >= min_in_degree

(***************************************************************************)
(* C6                                                                      *)
(***************************************************************************)
DegreeGrid == 1..6
MeanGrid == {40000, 48000, 50000, 50001}

\* the nodes the test of lines 45-50 reports with thresholds (d, m)
HubSet(g, d, m) == {n \in Range(g.nodes) : is_suspicious(in_edges(g, n), d, m)}

\* the hunt is about to start on the finished graph
HuntStarts == pc = "detect" /\ node_index = 1

\* C6: on every built graph, a node reported under a degree bound is
\* reported under every smaller one, and a node reported under a mean bound
\* is reported under every larger one: the reported set shrinks (weakly) as
\* min_in_degree grows and grows (weakly) as max_mean_amount grows.
C6_MonotoneInThresholds ==
    HuntStarts =>
        \A n \in Range(G.nodes) :
            LET es == in_edges(G, n)
            IN  /\ \A d1 \in DegreeGrid, d2 \in DegreeGrid, m \in MeanGrid :
                       (d1 <= d2 /\ is_suspicious(es, d2, m))
                           => is_suspicious(es, d1, m)
                /\ \A m1 \in MeanGrid, m2 \in MeanGrid, d \in DegreeGrid :
                       (m1 <= m2 /\ is_suspicious(es, d, m1))
                           => is_suspicious(es, d, m2)

\* a graph on which both thresholds bite: a hub at (5, 50000) that is lost
\* at degree 6 and at mean bound 48000, and a node gained at bound 50001
C6_Witness ==
    /\ HuntStarts
    /\ \E n \in HubSet(G, 5, 50000) :
           n \notin HubSet(G, 6, 50000) /\ n \notin HubSet(G, 5, 48000)
    /\ HubSet(G, 5, 50001) \ HubSet(G, 5, 50000) # {}

C8_InsertionOrder ==
    pc = "done" =>
        /\ suspicious_accounts
               = SelectSeq(FirstReferenceOrder(df_sample, << >>), IsFlagged)
        /\ \A j \in DOMAIN suspicious_accounts, k \in DOMAIN suspicious_accounts :
               suspicious_accounts[j] = suspicious_accounts[k] => j = k
        /\ suspicious_accounts # << >> => target = suspicious_accounts[1]

\* two hubs reported, the first of them first named as the sender of the
\* row whose receiver is the second
C8_Witness ==
    /\ pc = "done"
    /\ Len(suspicious_accounts) >= 2
    /\ target = suspicious_accounts[1]
    /\ df_sample[1].nameOrig = suspicious_accounts[1]
    /\ df_sample[1].nameDest = suspicious_accounts[2]

(***************************************************************************)
(* C9                                                                      *)
(***************************************************************************)
\* C9: the sample is the first SAMPLE_SIZE rows, in ledger order, among the
\* rows of an allowed category (all of them when fewer exist), and the
\* number of edge insertions never exceeds SAMPLE_SIZE.
C9_CapAfterFilter ==
    pc \notin {"filter", "sample"} =>
        /\ df_sample = FirstAllowed(df, SAMPLE_SIZE)
        /\ Len(df_sample) <= SAMPLE_SIZE
        /\ index - 1 <= SAMPLE_SIZE
        /\ index - 1 <= Len(df_sample)

\* the cap has cut the filtered ledger, a row of another category stands
\* among the first SAMPLE_SIZE rows of the ledger, and all insertions ran
C9_Witness ==
    /\ GraphBuilt
    /\ Len(df_filtered) > SAMPLE_SIZE
    /\ index - 1 = SAMPLE_SIZE
    /\ \E k \in 1..SAMPLE_SIZE : df[k].type \notin {"TRANSFER", "CASH_OUT"}

(***************************************************************************)
(* C10                                                                     *)
(***************************************************************************)
\* C10: after any number of insertions the graph holds exactly one edge per
\* ordered pair named by the inserted rows, with the amount and category of
\* the last such row; a node's in-degree is its number of distinct senders
\* and its inbound total is one amount per distinct sender.
C10_LastRowWins ==
    pc \in {"build", "detect", "done"} =>
        /\ DOMAIN G.edges = PairsOf(Inserted)
        /\ \A p \in DOMAIN G.edges :
               LET r == Inserted[LastOf(RowsOfPair(Inserted, p[1], p[2]))]
               IN  G.edges[p] = [weight |-> r.amount, type |-> r.type]
        /\ \A n \in Range(G.nodes) :
               /\ InDegreeOf(G, n)
                      = Cardinality({Inserted[k].nameOrig :
                                       k \in {j \in DOMAIN Inserted :
                                                Inserted[j].nameDest = n}})
               /\ sum(in_edges(G, n)) = InboundTotal(G, n)

\* a pair inserted twice with different amounts and categories
C10_Witness ==
    /\ pc = "done"
    /\ \E j \in DOMAIN Inserted, k \in DOMAIN Inserted :
           /\ j < k
           /\ Inserted[j].nameOrig = Inserted[k].nameOrig
           /\ Inserted[j].nameDest = Inserted[k].nameDest
           /\ Inserted[j].amount # Inserted[k].amount
           /\ Inserted[j].type # Inserted[k].type

====
